---- MODULE Spec2Model ----
(***************************************************************************)
(* Model of the HelloContract Soroban contract                             *)
(* (contracts/hello-world/src/lib.rs).                                     *)
(*                                                                         *)
(* The contract's state is what it keeps in the host key-value store: the  *)
(* instance scope (DataKey::Admin, DataKey::ContadorSaludos, one shared    *)
(* TTL) and the persistent scope (DataKey::ContadorPorUsuario(a) and       *)
(* DataKey::UltimoSaludo(a), one TTL per entry).  Every entry point is one *)
(* action: an invocation runs to completion before the next one starts.    *)
(* `call` and `ret` record the last invocation and what it returned.       *)
(***************************************************************************)
EXTENDS Integers, Sequences, FiniteSets, TLC

VARIABLES
    instance,        \* instance storage: DataKey -> value, present keys only
    instance_ttl,    \* ledger until which the instance entry lives
    persistent,      \* persistent storage: DataKey -> value, present keys only
    persistent_ttl,  \* ledger until which each persistent entry lives
    ledger,          \* current ledger sequence number
    call,            \* the last invocation: entry point and arguments
    ret              \* what the last invocation returned

store == <<instance, instance_ttl, persistent, persistent_ttl>>
vars == <<instance, instance_ttl, persistent, persistent_ttl, ledger,
          call, ret>>

----------------------------------------------------------------------------
(* Bounds of the exploration: hello is explored while the counters are below *)
(* MaxCount, the ledger closes MaxLedger times.                              *)

MaxCount == 2
MaxLedger == 1

----------------------------------------------------------------------------
(* Values *)

Addresses == {"GA", "GB", "GC"}
NoAddress == "-"

\* the identities that greet
Usuarios == {"GA", "GB"}

Rep(c, n) == [i \in 1..n |-> c]

Vacio == <<>>
Ana == <<"A", "n", "a">>
Nombre24 == Rep("x", 24)
Nombre25 == Rep("y", 25)
Nombre32 == Rep("z", 32)
Nombres == {Vacio, Ana, Nombre24, Nombre25, Nombre32}

Hola == <<"H", "o", "l", "a">>

\* enum Error
NombreVacio == 1
NombreMuyLargo == 2
NoAutorizado == 3
NoInicializado == 4

\* enum DataKey
Admin == "Admin"
ContadorSaludos == "ContadorSaludos"
UltimoSaludo(a) == <<"UltimoSaludo", a>>
ContadorPorUsuario(a) == <<"ContadorPorUsuario", a>>

MaxXdrLen == 32

\* The counters are u32.  The model checker's integers are 32-bit and signed,
\* so a u32 is held as the signed reading of its 32 bits: 0 .. 2^31-1 are
\* themselves and 2^32-1, the largest u32, is -1.  `+ 1` on this reading is
\* the wrapping sum of the machine: (2^32-1) + 1 = 0 is -1 + 1 = 0.
U32Max == 0 - 1
TtlThreshold == 100
TtlExtendTo == 100

\* Lifetime the host gives a newly created entry (a network setting); taken
\* at the refresh threshold, so that extend_ttl leaves a new entry alone and
\* refreshes it once a ledger has closed.
MinEntryTtl == TtlThreshold

----------------------------------------------------------------------------
(* Host storage *)

Has(map, key) == key \in DOMAIN map

GetOr(map, key, default) == IF key \in DOMAIN map THEN map[key] ELSE default

Set(map, key, value) ==
    [k \in (DOMAIN map) \cup {key} |-> IF k = key THEN value ELSE map[k]]

\* set() of a persistent key: a key that did not exist gets the host's
\* minimum lifetime, an existing key keeps the lifetime it has.
SetTtl(ttl, key) ==
    IF key \in DOMAIN ttl THEN ttl
    ELSE [k \in (DOMAIN ttl) \cup {key} |->
             IF k = key THEN ledger + MinEntryTtl ELSE ttl[k]]

\* extend_ttl(threshold, extend_to): when the remaining lifetime is at most
\* threshold and ledger + extend_to is later than the current end of life,
\* the entry lives until ledger + extend_to.
ExtendTtl(live_until, threshold, extend_to) ==
    IF live_until - ledger <= threshold /\ ledger + extend_to > live_until
    THEN ledger + extend_to
    ELSE live_until

\* Canonical XDR encoding of a Symbol value: 4 bytes of value type, 4 bytes
\* of length, then the characters padded to a multiple of 4 bytes.
XdrLen(nombre) == 4 + 4 + 4 * ((Len(nombre) + 3) \div 4)

\* What the three getters read; an Option is <<>> for None, <<v>> for Some(v)
ContadorEn(inst) == GetOr(inst, ContadorSaludos, 0)
ContadorUsuarioEn(pers, usuario) == GetOr(pers, ContadorPorUsuario(usuario), 0)
UltimoSaludoEn(pers, usuario) ==
    IF Has(pers, UltimoSaludo(usuario)) THEN <<pers[UltimoSaludo(usuario)]>> ELSE <<>>

----------------------------------------------------------------------------
(* Results *)

\* Result<T, Error>: err is 0 for Ok(val), the error code for Err; trap marks
\* an invocation that panicked and returned nothing
Ok(v) == [trap |-> FALSE, err |-> 0, val |-> v]
Err(e) == [trap |-> FALSE, err |-> e, val |-> <<>>]
Panic == [trap |-> TRUE, err |-> 0, val |-> <<>>]
Unit == <<>>

IsOk(r) == ~r.trap /\ r.err = 0
IsErr(r) == ~r.trap /\ r.err # 0

Call(op, caller, nuevo_admin, nombre) ==
    [op |-> op, caller |-> caller, nuevo_admin |-> nuevo_admin, nombre |-> nombre]

----------------------------------------------------------------------------
(* Initial state: a registered contract with empty storage *)

Init ==
    /\ instance = << >>
    /\ instance_ttl = MinEntryTtl
    /\ persistent = << >>
    /\ persistent_ttl = << >>
    /\ ledger = 0
    /\ call = Call("register", NoAddress, NoAddress, Vacio)
    /\ ret = Ok(Unit)

----------------------------------------------------------------------------
(* Entry points *)

\* initialize without the guard of lines 33-35
initialize_SinGuardia(admin) ==
    /\ call' = Call("initialize", admin, NoAddress, Vacio)
    /\ instance' = Set(Set(instance, Admin, admin), ContadorSaludos, 0)
    /\ instance_ttl' = ExtendTtl(instance_ttl, TtlThreshold, TtlExtendTo)
    /\ ret' = Ok(Unit)
    /\ UNCHANGED <<persistent, persistent_ttl, ledger>>

\* initialize without the write of the counter (line 38)
initialize_SinContador(admin) ==
    /\ call' = Call("initialize", admin, NoAddress, Vacio)
    /\ IF Has(instance, Admin)
       THEN /\ ret' = Err(NoInicializado)
            /\ UNCHANGED store
       ELSE /\ instance' = Set(instance, Admin, admin)
            /\ instance_ttl' = ExtendTtl(instance_ttl, TtlThreshold, TtlExtendTo)
            /\ ret' = Ok(Unit)
            /\ UNCHANGED <<persistent, persistent_ttl>>
    /\ UNCHANGED ledger

initialize(admin) ==
    /\ call' = Call("initialize", admin, NoAddress, Vacio)
    /\ IF Has(instance, Admin)
       THEN /\ ret' = Err(NoInicializado)
            /\ UNCHANGED store
       ELSE /\ instance' = Set(Set(instance, Admin, admin), ContadorSaludos, 0)
            /\ instance_ttl' = ExtendTtl(instance_ttl, TtlThreshold, TtlExtendTo)
            /\ ret' = Ok(Unit)
            /\ UNCHANGED <<persistent, persistent_ttl>>
    /\ UNCHANGED ledger

\* the length check with `>=` in place of `>`
ValidarNombre_MayorIgual(nombre) ==
    IF nombre = Vacio THEN NombreVacio
    ELSE IF XdrLen(nombre) >= MaxXdrLen THEN NombreMuyLargo
    ELSE 0

\* the validation without the empty-name check
ValidarNombre_SinVacio(nombre) ==
    IF XdrLen(nombre) > MaxXdrLen THEN NombreMuyLargo ELSE 0

\* lines 49-59 of hello: the error the name is rejected with, 0 when accepted
ValidarNombre(nombre) ==
    IF nombre = Vacio THEN NombreVacio
    ELSE IF XdrLen(nombre) > MaxXdrLen THEN NombreMuyLargo
    ELSE 0

\* the global counter written back without the increment
HelloInstance_SinIncremento(contador) == Set(instance, ContadorSaludos, contador)

\* the instance storage rebuilt with the counter alone
HelloInstance_Reemplaza(contador) ==
    [k \in {ContadorSaludos} |-> contador + 1]

\* lines 61-69 of hello: the instance storage after the global increment
HelloInstance(contador) == Set(instance, ContadorSaludos, contador + 1)

\* the last greeting written only when the user has none yet
HelloPersistent_PrimerSaludo(usuario, nombre, user_count) ==
    LET p1 == Set(persistent, ContadorPorUsuario(usuario), user_count + 1)
    IN  IF Has(p1, UltimoSaludo(usuario)) THEN p1
        ELSE Set(p1, UltimoSaludo(usuario), nombre)

\* both per-user records written under every user's key
HelloPersistent_TodosLosUsuarios(usuario, nombre, user_count) ==
    [k \in (DOMAIN persistent)
              \cup {ContadorPorUsuario(u) : u \in Usuarios}
              \cup {UltimoSaludo(u) : u \in Usuarios} |->
        IF k \in {UltimoSaludo(u) : u \in Usuarios} THEN nombre
        ELSE user_count + 1]

\* the last greeting written without the per-user count
HelloPersistent_SoloSaludo(usuario, nombre, user_count) ==
    Set(persistent, UltimoSaludo(usuario), nombre)

\* the per-user count written without the last greeting
HelloPersistent_SoloContador(usuario, nombre, user_count) ==
    Set(persistent, ContadorPorUsuario(usuario), user_count + 1)

\* lines 71-90 of hello: the persistent storage after both per-user writes
HelloPersistent(usuario, nombre, user_count) ==
    Set(Set(persistent, ContadorPorUsuario(usuario), user_count + 1),
        UltimoSaludo(usuario), nombre)

\* the per-user writes without the extend_ttl calls of lines 80-82 and 88-90
HelloPersistentTtl_SinExtender(usuario) ==
    SetTtl(SetTtl(persistent_ttl, ContadorPorUsuario(usuario)), UltimoSaludo(usuario))

\* lines 77-90 of hello: lifetimes after set + extend_ttl of both user keys
HelloPersistentTtl(usuario) ==
    LET t1 == SetTtl(persistent_ttl, ContadorPorUsuario(usuario))
        t2 == [t1 EXCEPT ![ContadorPorUsuario(usuario)] =
                  ExtendTtl(@, TtlThreshold, TtlExtendTo)]
        t3 == SetTtl(t2, UltimoSaludo(usuario))
    IN  [t3 EXCEPT ![UltimoSaludo(usuario)] =
            ExtendTtl(@, TtlThreshold, TtlExtendTo)]

\* The builds of `+` on u32 (lines 69 and 79): with overflow checks (TRUE: a
\* debug or test build, or a profile with overflow-checks = true) a sum that
\* does not fit panics, without them (FALSE: an optimised build of the
\* default release profile) it wraps around.  The sources hold no build
\* profile, so a sum that does not fit has both outcomes.
OverflowChecks == {TRUE, FALSE}

\* `contador + 1u32` (line 69) and `user_count + 1u32` (line 79): the sum
\* panics when the build checks overflow and the sum does not fit.  b is 1 at
\* both places, so the sum does not fit exactly when a is the largest u32.
AddPanics(a, b, overflow_checks) == overflow_checks /\ b = 1 /\ a = U32Max

hello(usuario, nombre) ==
    LET contador == ContadorEn(instance)
        user_count == ContadorUsuarioEn(persistent, usuario)
    IN  /\ ValidarNombre(nombre) = 0 => (contador < MaxCount /\ user_count < MaxCount)
        /\ call' = Call("hello", usuario, NoAddress, nombre)
        /\ IF ValidarNombre(nombre) # 0
           THEN /\ ret' = Err(ValidarNombre(nombre))
                /\ UNCHANGED store
           ELSE \E overflow_checks \in OverflowChecks :
                IF \/ AddPanics(contador, 1, overflow_checks)
                   \/ AddPanics(user_count, 1, overflow_checks)
                THEN \* the panic traps the invocation and the host discards
                     \* every write it made, the one of line 69 included
                     /\ ret' = Panic
                     /\ UNCHANGED store
                ELSE \* `+ 1` is the wrapping sum on the signed reading of
                     \* the word: the largest u32 becomes 0
                     /\ instance' = HelloInstance(contador)
                     /\ persistent' = HelloPersistent(usuario, nombre, user_count)
                     /\ persistent_ttl' = HelloPersistentTtl(usuario)
                     /\ instance_ttl' = ExtendTtl(instance_ttl, TtlThreshold, TtlExtendTo)
                     /\ ret' = Ok(Hola)
        /\ UNCHANGED ledger

\* get_contador creating the counter record when it is absent
get_contador_Inicializa ==
    /\ call' = Call("get_contador", NoAddress, NoAddress, Vacio)
    /\ ret' = Ok(ContadorEn(instance))
    /\ instance' = Set(instance, ContadorSaludos, ContadorEn(instance))
    /\ UNCHANGED <<instance_ttl, persistent, persistent_ttl, ledger>>

get_contador ==
    /\ call' = Call("get_contador", NoAddress, NoAddress, Vacio)
    /\ ret' = Ok(ContadorEn(instance))
    /\ UNCHANGED <<store, ledger>>

get_contador_usuario(usuario) ==
    /\ call' = Call("get_contador_usuario", usuario, NoAddress, Vacio)
    /\ ret' = Ok(ContadorUsuarioEn(persistent, usuario))
    /\ UNCHANGED <<store, ledger>>

get_ultimo_saludo(usuario) ==
    /\ call' = Call("get_ultimo_saludo", usuario, NoAddress, Vacio)
    /\ ret' = Ok(UltimoSaludoEn(persistent, usuario))
    /\ UNCHANGED <<store, ledger>>

\* the admin check without the comparison of the caller
AdminCheck_SinComparar(caller) ==
    IF ~Has(instance, Admin) THEN NoInicializado ELSE 0

\* the admin check comparing the caller before it looks for the Admin record
AdminCheck_ComparaPrimero(caller) ==
    IF ~Has(instance, Admin) THEN NoAutorizado
    ELSE IF caller # instance[Admin] THEN NoAutorizado
    ELSE 0

\* lines 121-128 and 142-150: the admin check shared by the two admin calls,
\* the error it ends the call with, 0 when the caller is the stored admin
AdminCheck(caller) ==
    IF ~Has(instance, Admin) THEN NoInicializado
    ELSE IF caller # instance[Admin] THEN NoAutorizado
    ELSE 0

\* reset_contador writing the counter before it checks the caller
reset_contador_EscribeAntes(caller) ==
    /\ call' = Call("reset_contador", caller, NoAddress, Vacio)
    /\ IF ~Has(instance, Admin)
       THEN /\ ret' = Err(NoInicializado)
            /\ UNCHANGED instance
       ELSE /\ instance' = Set(instance, ContadorSaludos, 0)
            /\ ret' = IF caller # instance[Admin] THEN Err(NoAutorizado) ELSE Ok(Unit)
    /\ UNCHANGED <<instance_ttl, persistent, persistent_ttl, ledger>>

reset_contador(caller) ==
    /\ call' = Call("reset_contador", caller, NoAddress, Vacio)
    /\ IF AdminCheck(caller) # 0
       THEN /\ ret' = Err(AdminCheck(caller))
            /\ UNCHANGED store
       ELSE /\ instance' = Set(instance, ContadorSaludos, 0)
            /\ ret' = Ok(Unit)
            /\ UNCHANGED <<instance_ttl, persistent, persistent_ttl>>
    /\ UNCHANGED ledger

\* transfer_admin storing the caller in place of nuevo_admin
transfer_admin_GuardaCaller(caller, nuevo_admin) ==
    /\ call' = Call("transfer_admin", caller, nuevo_admin, Vacio)
    /\ IF AdminCheck(caller) # 0
       THEN /\ ret' = Err(AdminCheck(caller))
            /\ UNCHANGED store
       ELSE /\ instance' = Set(instance, Admin, caller)
            /\ ret' = Ok(Unit)
            /\ UNCHANGED <<instance_ttl, persistent, persistent_ttl>>
    /\ UNCHANGED ledger

transfer_admin(caller, nuevo_admin) ==
    /\ call' = Call("transfer_admin", caller, nuevo_admin, Vacio)
    /\ IF AdminCheck(caller) # 0
       THEN /\ ret' = Err(AdminCheck(caller))
            /\ UNCHANGED store
       ELSE /\ instance' = Set(instance, Admin, nuevo_admin)
            /\ ret' = Ok(Unit)
            /\ UNCHANGED <<instance_ttl, persistent, persistent_ttl>>
    /\ UNCHANGED ledger

\* The network closes a ledger: every entry is one ledger closer to its end
AdvanceLedger ==
    /\ ledger < MaxLedger
    /\ ledger' = ledger + 1
    /\ call' = Call("close_ledger", NoAddress, NoAddress, Vacio)
    /\ ret' = Ok(Unit)
    /\ UNCHANGED store

Next ==
    \/ \E admin \in Addresses : initialize(admin)
    \/ \E usuario \in Usuarios, nombre \in Nombres : hello(usuario, nombre)
    \/ get_contador
    \/ \E usuario \in Addresses : get_contador_usuario(usuario)
    \/ \E usuario \in Addresses : get_ultimo_saludo(usuario)
    \/ \E caller \in Addresses : reset_contador(caller)
    \/ \E caller \in Addresses, nuevo_admin \in Addresses :
          transfer_admin(caller, nuevo_admin)
    \/ AdvanceLedger

Spec == Init /\ [][Next]_vars

\* The contract after initialize(GA) and 2^32-2 successful hello(GA, Ana):
\* both counters are one below the largest u32.
InitOverflow ==
    /\ instance = [k \in {Admin, ContadorSaludos} |->
                      IF k = Admin THEN "GA" ELSE U32Max - 1]
    /\ instance_ttl = MinEntryTtl
    /\ persistent = [k \in {ContadorPorUsuario("GA"), UltimoSaludo("GA")} |->
                        IF k = UltimoSaludo("GA") THEN Ana ELSE U32Max - 1]
    /\ persistent_ttl = [k \in {ContadorPorUsuario("GA"), UltimoSaludo("GA")} |->
                            MinEntryTtl]
    /\ ledger = 0
    /\ call = Call("hello", "GA", NoAddress, Ana)
    /\ ret = Ok(Hola)

SpecOverflow == InitOverflow /\ [][Next]_vars

----------------------------------------------------------------------------
(* Properties *)

Initialized == Has(instance, Admin)

\* C1: on a contract with no Admin record, hello, reset_contador and
\* transfer_admin return NoInicializado, whatever their arguments.
C1_GatedByInitialize ==
    [][(~Initialized /\ call'.op \in {"hello", "reset_contador", "transfer_admin"})
          => ret'.err = NoInicializado]_vars

\* C2: every successful hello(usuario, nombre) raises the global count by
\* exactly 1 and the count of usuario by exactly 1.
C2_HelloIncrementa ==
    [][(call'.op = "hello" /\ IsOk(ret'))
          => \A u \in Usuarios : call'.caller = u =>
                /\ ContadorEn(instance') = ContadorEn(instance) + 1
                /\ ContadorUsuarioEn(persistent', u)
                      = ContadorUsuarioEn(persistent, u) + 1]_vars

C2_Witness ==
    /\ call.op = "hello" /\ IsOk(ret)
    /\ Initialized
    /\ ContadorEn(instance) = 2
    /\ ContadorUsuarioEn(persistent, call.caller) = 1

\* C3: the global count gets lower only in a successful reset_contador whose
\* caller is the stored Admin.
C3_SoloResetBaja ==
    [][ContadorEn(instance') < ContadorEn(instance)
          => /\ call'.op = "reset_contador" /\ IsOk(ret')
             /\ Initialized /\ call'.caller = instance[Admin]]_vars

\* C4: initialize on a contract that has an Admin record fails with code 4
\* and leaves the Admin, the global count, the per-user counts and the last
\* greetings as they were.
C4_NoReinicializar ==
    [][(Initialized /\ call'.op = "initialize")
          => /\ ret'.err = 4
             /\ instance' = instance
             /\ persistent' = persistent]_vars

C4_Witness ==
    /\ call.op = "initialize" /\ ret.err = 4
    /\ instance[Admin] # call.caller
    /\ ContadorEn(instance) >= 1
    /\ \E u \in Usuarios : Has(persistent, UltimoSaludo(u))

\* C5: transfer_admin by a caller other than the stored Admin fails with
\* NoAutorizado and leaves Admin as it was; a successful
\* transfer_admin(caller, nuevo_admin) stores nuevo_admin as Admin; and
\* reset_contador and transfer_admin on an initialized contract pass the
\* admin check exactly when the caller is the stored Admin, any other caller
\* getting NoAutorizado.
C5_TransferAdmin ==
    [][/\ (Initialized /\ call'.op = "transfer_admin" /\ call'.caller # instance[Admin])
            => (ret'.err = NoAutorizado /\ instance'[Admin] = instance[Admin])
       /\ (call'.op = "transfer_admin" /\ IsOk(ret'))
            => instance'[Admin] = call'.nuevo_admin
       /\ (Initialized /\ call'.op \in {"reset_contador", "transfer_admin"})
            => IF call'.caller = instance[Admin]
               THEN IsOk(ret')
               ELSE ret'.err = NoAutorizado]_vars

C5_Witness ==
    /\ call.op = "transfer_admin" /\ ret.err = NoAutorizado
    /\ Initialized
    /\ call.caller # instance[Admin]
    /\ call.nuevo_admin = call.caller

\* C6: on an initialized contract, reset_contador by a caller other than the
\* stored Admin fails with NoAutorizado and leaves the global count as it was;
\* by the stored Admin it succeeds and stores a global count of 0 while every
\* per-user count and every last greeting stays as it was.
C6_ResetContador ==
    [][(Initialized /\ call'.op = "reset_contador")
          => IF call'.caller # instance[Admin]
             THEN /\ ret'.err = NoAutorizado
                  /\ instance' = instance
             ELSE /\ IsOk(ret')
                  /\ Has(instance', ContadorSaludos)
                  /\ instance'[ContadorSaludos] = 0
                  /\ persistent' = persistent]_vars

C6_Witness ==
    /\ call.op = "reset_contador" /\ IsOk(ret)
    /\ ContadorEn(instance) = 0
    /\ ContadorUsuarioEn(persistent, "GA") = 2
    /\ UltimoSaludoEn(persistent, "GB") = <<Nombre24>>

\* C7: hello with a name whose XDR encoding is longer than 32 bytes fails
\* with NombreMuyLargo and changes no count and no last greeting; hello with
\* a non-empty name whose XDR encoding is exactly 32 bytes long succeeds.
C7_NombreMuyLargo ==
    [][call'.op = "hello"
          => /\ XdrLen(call'.nombre) > 32
                  => /\ ret'.err = NombreMuyLargo
                     /\ instance' = instance
                     /\ persistent' = persistent
             /\ (call'.nombre # Vacio /\ XdrLen(call'.nombre) = 32)
                  => IsOk(ret')]_vars

C7_Witness ==
    /\ call.op = "hello" /\ ret.err = NombreMuyLargo
    /\ Len(call.nombre) = 25
    /\ UltimoSaludoEn(persistent, call.caller) = <<Nombre24>>
    /\ XdrLen(Nombre24) = 32
    /\ ContadorUsuarioEn(persistent, call.caller) = 1

\* C8: hello with the empty name fails with NombreVacio for every user and in
\* every state, and changes no count and no last greeting.
C8_NombreVacio ==
    [][(call'.op = "hello" /\ call'.nombre = Vacio)
          => /\ ret'.err = NombreVacio
             /\ instance' = instance
             /\ persistent' = persistent]_vars

C8_Witness ==
    /\ call.op = "hello" /\ call.nombre = Vacio /\ ret.err = NombreVacio
    /\ Initialized
    /\ ContadorEn(instance) = 1
    /\ ContadorUsuarioEn(persistent, call.caller) = 1

\* C9: a call that returns an error leaves the whole store as it was: the
\* instance and persistent records and their lifetimes.
C9_ErrorSinEfecto ==
    [][IsErr(ret')
          => /\ instance' = instance
             /\ instance_ttl' = instance_ttl
             /\ persistent' = persistent
             /\ persistent_ttl' = persistent_ttl]_vars

C9_Witness ==
    /\ call.op = "reset_contador" /\ ret.err = NoAutorizado
    /\ ContadorEn(instance) = 2
    /\ instance_ttl - ledger < TtlThreshold

\* C10: once there is an Admin record there is one in every later state,
\* initialize does not succeed again, and the stored Admin changes only in a
\* successful transfer_admin.
C10_AdminPermanente ==
    [][Initialized
          => /\ Has(instance', Admin)
             /\ call'.op = "initialize" => ~IsOk(ret')
             /\ instance'[Admin] # instance[Admin]
                  => (call'.op = "transfer_admin" /\ IsOk(ret'))]_vars

C10_Witness ==
    /\ call.op = "transfer_admin" /\ IsOk(ret)
    /\ call.caller # call.nuevo_admin
    /\ instance[Admin] = call.nuevo_admin
    /\ ContadorEn(instance) = 2

\* C11: initialize on a contract with no Admin record succeeds, stores the
\* given identity as Admin and a global count of 0, so that get_contador
\* reads 0 and the given identity, and no other, passes the admin check.
C11_Initialize ==
    [][(~Initialized /\ call'.op = "initialize")
          => /\ IsOk(ret')
             /\ Has(instance', Admin)
             /\ instance'[Admin] = call'.caller
             /\ Has(instance', ContadorSaludos)
             /\ ContadorEn(instance') = 0
             /\ \A a \in Addresses : (AdminCheck(a)' = 0) <=> (a = call'.caller)]_vars

C11_Witness ==
    /\ call.op = "initialize" /\ IsOk(ret)
    /\ instance[Admin] = call.caller
    /\ ContadorEn(instance) = 0
    /\ ledger = 1
    /\ \E u \in Usuarios : ContadorUsuarioEn(persistent, u) = 2

\* C12: a successful hello(usuario, nombre) makes nombre the last greeting
\* of usuario, overwriting the previous one, and no other step (a failed
\* hello, reset_contador, transfer_admin, initialize, a getter) changes the
\* last greeting of any user.
C12_UltimoSaludo ==
    [][\A u \in Addresses :
          IF call'.op = "hello" /\ IsOk(ret') /\ call'.caller = u
          THEN UltimoSaludoEn(persistent', u) = <<call'.nombre>>
          ELSE UltimoSaludoEn(persistent', u) = UltimoSaludoEn(persistent, u)]_vars

C12_Witness ==
    /\ call.op = "hello" /\ IsOk(ret)
    /\ call.nombre = Ana
    /\ UltimoSaludoEn(persistent, call.caller) = <<Ana>>
    /\ ContadorUsuarioEn(persistent, call.caller) = 2
    /\ \E v \in Usuarios : UltimoSaludoEn(persistent, v) = <<Nombre24>>

\* C13: no user has a per-user count other than 0 before greeting, and a
\* step changes the per-user count or the last greeting of a user V only when
\* it is a successful hello by V: a hello by another user, successful or not,
\* leaves both as they were.
C13_UsuariosIndependientes ==
    /\ \A v \in Addresses : ContadorUsuarioEn(persistent, v) = 0
    /\ [][\A v \in Addresses :
             (call'.op = "hello" /\ IsOk(ret') /\ call'.caller = v)
             \/ /\ ContadorUsuarioEn(persistent', v) = ContadorUsuarioEn(persistent, v)
                /\ UltimoSaludoEn(persistent', v) = UltimoSaludoEn(persistent, v)]_vars

C13_Witness ==
    /\ call.op = "hello" /\ IsOk(ret)
    /\ call.caller = "GA"
    /\ ContadorUsuarioEn(persistent, "GA") = 2
    /\ ContadorUsuarioEn(persistent, "GB") = 1
    /\ UltimoSaludoEn(persistent, "GB") = <<Nombre24>>
    /\ ContadorUsuarioEn(persistent, "GC") = 0

\* C14: the three getters leave the whole store as it was, in initialized
\* and uninitialized states alike, and return the stored record, or 0, 0 and
\* None when the record is absent.
C14_Getters ==
    [][/\ call'.op \in {"get_contador", "get_contador_usuario", "get_ultimo_saludo"}
            => /\ IsOk(ret')
               /\ instance' = instance /\ instance_ttl' = instance_ttl
               /\ persistent' = persistent /\ persistent_ttl' = persistent_ttl
       /\ call'.op = "get_contador"
            => ret'.val = IF ContadorSaludos \in DOMAIN instance
                          THEN instance[ContadorSaludos] ELSE 0
       /\ call'.op = "get_contador_usuario"
            => ret'.val = IF ContadorPorUsuario(call'.caller) \in DOMAIN persistent
                          THEN persistent[ContadorPorUsuario(call'.caller)] ELSE 0
       /\ call'.op = "get_ultimo_saludo"
            => ret'.val = IF UltimoSaludo(call'.caller) \in DOMAIN persistent
                          THEN <<persistent[UltimoSaludo(call'.caller)]>> ELSE <<>>]_vars

C14_Witness ==
    /\ call.op = "get_contador" /\ IsOk(ret)
    /\ ~Initialized
    /\ ~Has(instance, ContadorSaludos)
    /\ ret.val = 0

\* C15: reset_contador and transfer_admin look for the Admin record before
\* they compare the caller: without an Admin record they return
\* NoInicializado for every caller and write nothing, with one they never
\* return NoInicializado.
C15_InicializacionAntesDeAutorizacion ==
    [][call'.op \in {"reset_contador", "transfer_admin"}
          => IF ~Initialized
             THEN /\ ret'.err = NoInicializado
                  /\ instance' = instance /\ instance_ttl' = instance_ttl
                  /\ persistent' = persistent /\ persistent_ttl' = persistent_ttl
             ELSE ret'.err # NoInicializado]_vars

C15_Witness ==
    /\ call.op = "transfer_admin" /\ ret.err = NoInicializado
    /\ ~Initialized
    /\ ContadorEn(instance) = 1

\* Remaining lifetime of the records, in ledgers
InstanceTtl == instance_ttl - ledger
PersistentTtl(key) == persistent_ttl[key] - ledger

\* C16: a successful initialize leaves the instance record with at least
\* 100 ledgers to live; a successful hello(usuario, _) leaves usuario's
\* per-user count, usuario's last greeting and the instance record each with
\* at least 100 ledgers to live; a successful reset_contador or
\* transfer_admin changes no lifetime.
C16_TtlAsimetrico ==
    [][/\ (call'.op = "initialize" /\ IsOk(ret'))
            => instance_ttl' - ledger' >= 100
       /\ (call'.op = "hello" /\ IsOk(ret'))
            => /\ persistent_ttl'[ContadorPorUsuario(call'.caller)] - ledger' >= 100
               /\ persistent_ttl'[UltimoSaludo(call'.caller)] - ledger' >= 100
               /\ instance_ttl' - ledger' >= 100
       /\ (call'.op \in {"reset_contador", "transfer_admin"} /\ IsOk(ret'))
            => /\ instance_ttl' = instance_ttl
               /\ persistent_ttl' = persistent_ttl]_vars

C16_Witness ==
    /\ call.op = "reset_contador" /\ IsOk(ret)
    /\ InstanceTtl < 100
    /\ \E u \in Usuarios :
          /\ Has(persistent_ttl, ContadorPorUsuario(u))
          /\ PersistentTtl(ContadorPorUsuario(u)) < 100
    /\ \E v \in Usuarios : ContadorUsuarioEn(persistent, v) = 2

SumaUsuarios == ContadorUsuarioEn(persistent, "GA")
                + ContadorUsuarioEn(persistent, "GB")
                + ContadorUsuarioEn(persistent, "GC")

\* C17: the global count is at most the sum of the per-user counts.
C17_GlobalMenorQueSuma == ContadorEn(instance) <= SumaUsuarios

C17_Witness ==
    /\ ContadorEn(instance) = 1
    /\ SumaUsuarios = 3
    /\ call.op = "hello" /\ IsOk(ret)

\* C18: a user has a last greeting exactly when the user's count is at
\* least 1.
C18_SaludoSiiContador ==
    \A u \in Addresses :
        (UltimoSaludoEn(persistent, u) # <<>>) <=> (ContadorUsuarioEn(persistent, u) >= 1)

C18_Witness ==
    /\ UltimoSaludoEn(persistent, "GA") = <<Nombre24>>
    /\ ContadorUsuarioEn(persistent, "GA") = 2
    /\ UltimoSaludoEn(persistent, "GB") = <<>>
    /\ ContadorUsuarioEn(persistent, "GB") = 0
    /\ call.op = "reset_contador" /\ IsOk(ret)

\* C19: the u32 counters never wrap around: when the global count or the
\* caller's per-user count is 2^32-1, hello with a valid name does not
\* succeed and leaves every record as it was.  Under SpecOverflow the formula
\* holds of the steps of a build with overflow checks and is violated by
\* those of a build without them.
C19_SinDesborde ==
    [][(/\ call'.op = "hello"
        /\ ValidarNombre(call'.nombre) = 0
        /\ \/ ContadorEn(instance) = U32Max
           \/ \E u \in Usuarios :
                 call'.caller = u /\ ContadorUsuarioEn(persistent, u) = U32Max)
          => /\ ~IsOk(ret')
             /\ instance' = instance /\ instance_ttl' = instance_ttl
             /\ persistent' = persistent /\ persistent_ttl' = persistent_ttl]_vars

====
